---- MODULE Spec2Model ----
(***************************************************************************)
(* A model of the agentic tool-use loop of gdrive-search-agent:            *)
(*   - agent/agent.py  run(): the turn loop, the parallel tool dispatch,   *)
(*     the cache hints and the usage counters;                             *)
(*   - agent/tools.py  execute_tool(): the name-keyed tool dispatch;       *)
(*   - app.py          chat(): the worker thread, the event queue and the  *)
(*     server-sent event stream of /chat.                                  *)
(*   - eval/runner.py  _is_correct(), _run_prompt(), _averages() and       *)
(*     run_eval(): the judge and the evaluation harness.                   *)
(* Spec is one call of run(); ChatSpec is a set of concurrent /chat        *)
(* requests; JudgeSpec is one call of _is_correct(); EvalSpec is one call  *)
(* of run_eval(); PoolSpec is a set of threads that call run() at the same *)
(* time.                                                                   *)
(***************************************************************************)
EXTENDS Integers, Sequences, FiniteSets, TLC

\* ------------------------------------------------------------------ bounds

\* Largest max_turns a caller passes.
MaxTurnsBound == 3
\* Largest number of tool_use blocks the backend puts in one response.
MaxBatch == 2
\* Largest number of tool_use blocks the backend asks for in one run.
MaxToolCalls == 3
\* The number of concurrent /chat requests.
NumRequests == 2
\* Largest number of lines of a judge's output.
MaxLines == 3
\* Largest number of questions of questions.json.
MaxQuestions == 2
\* Largest number of prompt variants passed to run_eval.
MaxPrompts == 3
\* Largest max_turns of a call of run that runs beside others.
MaxThreadTurns == 2

\* --------------------------------------------------------- program constants

\* agent.py:95, the minimum length of a tool result that gets a cache hint.
CACHE_MIN_LEN == 200
\* runner.py:172, the number of prompt variants run_eval keeps.
EVAL_MAX_VARIANTS == 2
\* tools.py:359, the hard cap on a listing returned by search_drive/list_files.
MAX_LISTING_CHARS == 4000

VARIABLES
    \* ---- run(): parameters
    max_turns,                    \* the turn budget
    system_prompt,                \* "" or a non-empty prompt
    \* ---- run(): locals
    messages,                     \* the conversation
    total_input_tokens,
    total_output_tokens,
    total_cache_read_tokens,
    total_cache_creation_tokens,
    total_tool_calls,
    turns,
    response,                     \* the response of the last backend call
    tool_blocks,                  \* the tool_use blocks of that response
    futures,                      \* the finished invocations of the turn's
                                  \* batch, in completion order
    pc,                           \* "loop" | "dispatch" | "returned" | "raised"
    result,                       \* the dict run() returned
    failure,                      \* the exception run() raised
    \* ---- run(): history of the calls to client.messages.create
    requests,                     \* the kwargs of every call, in order
    call_log,                     \* stop_reason and usage of every response
    produced,                     \* what execute_tool returned, by tool_use id
    \* ---- /chat
    chat,                         \* the state of every /chat request
    \* ---- eval/runner.py
    judge,                        \* one call of _is_correct
    harness,                      \* one call of run_eval
    \* ---- concurrent calls of run()
    pool                          \* the module globals and the locals of
                                  \* every thread that calls run

runVars == <<max_turns, system_prompt, messages, total_input_tokens,
             total_output_tokens, total_cache_read_tokens,
             total_cache_creation_tokens, total_tool_calls, turns, response,
             tool_blocks, futures, pc, result, failure, requests, call_log,
             produced>>

\* The variables outside run().
others == <<chat, judge, harness, pool>>

\* The variables outside chat().
besidesChat == <<runVars, judge, harness, pool>>

vars == <<runVars, others>>

\* ------------------------------------------------------------------ strings

\* A string the program handles: its text (or a label standing for a body the
\* Drive API returned) and its length.
Str(s) == [text |-> s, len |-> Len(s)]
Body(label, n) == [text |-> label, len |-> n]

\* s[:n]
Truncate(s, n) == IF s.len <= n THEN s ELSE [text |-> s.text, len |-> n]

Min(a, b) == IF a <= b THEN a ELSE b

\* ------------------------------------------------- the backend's responses

TextBlock(s) == [type |-> "text", text |-> s]
ToolUseBlock(id, name) == [type |-> "tool_use", id |-> id, name |-> name]

\* A usage counter of a response: an integer, None, or no such attribute.
Count(n) == [tag |-> "int", v |-> n]
None == [tag |-> "none"]
Missing == [tag |-> "missing"]

\* response.usage of the stubbed backend.
Usages ==
    { [input_tokens |-> 5, output_tokens |-> 2,
       cache_read_input_tokens |-> None,
       cache_creation_input_tokens |-> Missing],
      [input_tokens |-> 7, output_tokens |-> 3,
       cache_read_input_tokens |-> Count(4),
       cache_creation_input_tokens |-> Count(1)] }

\* The tool names the backend asks for: two of the registry and one that is not.
RequestedNames == {"search_drive", "read_document", "lookup"}

\* The sequences of at most n names.
RECURSIVE NameSeqs(_)
NameSeqs(n) ==
    IF n = 0 THEN {<<>>}
    ELSE LET shorter == NameSeqs(n - 1)
         IN  shorter \cup
             {Append(s, nm) : s \in {t \in shorter : Len(t) = n - 1},
                              nm \in RequestedNames}

Batches == NameSeqs(MaxBatch)

\* The content of a tool_use response of turn t: a text block, then one tool_use
\* block per name, with ids unique in the run.
ToolUseContent(t, names) ==
    <<TextBlock("Let me look.")>> \o
    [i \in 1..Len(names) |-> ToolUseBlock(<<t, i>>, names[i])]

EndTurnResponses ==
    {[stop_reason |-> "end_turn", content |-> c, usage |-> u] :
        c \in {<<TextBlock("The deadline ")>>,
               <<TextBlock("The deadline "), TextBlock("is March 3.")>>},
        u \in Usages}

ToolUseResponses(t, room) ==
    {[stop_reason |-> "tool_use", content |-> ToolUseContent(t, names),
      usage |-> u] : names \in {b \in Batches : Len(b) <= room}, u \in Usages}

OtherStopResponses ==
    {[stop_reason |-> s, content |-> <<TextBlock("The dead")>>, usage |-> u] :
        s \in {"max_tokens", "refusal"}, u \in Usages}

NoResponse == [stop_reason |-> "", content |-> <<>>, usage |-> <<>>]

\* ---------------------------------------------------- tools.py: execute_tool

Return(v) == [kind |-> "return", value |-> v]
Raise == [kind |-> "raise"]

\* The lengths of the listings and documents the Drive API returns.
ListingLens == {CACHE_MIN_LEN}
DocumentLens == {CACHE_MIN_LEN - 1}

\* The names execute_tool branches on.
RegisteredNames == {"search_drive", "list_files", "read_document"}

\* What one call execute_tool(name, inputs) can do: return a string, or let an
\* exception of the Drive client (or of the call's arguments) escape.
ExecuteTool(name) ==
    IF name = "search_drive" \/ name = "list_files"
    THEN {Return(Str("No files found."))}
         \cup {Return(Truncate(Body("listing", n), MAX_LISTING_CHARS)) :
                 n \in ListingLens}
         \cup {Raise}
    ELSE IF name = "read_document"
    THEN {Return(Body("document", n)) : n \in DocumentLens} \cup {Raise}
    ELSE {Return(Str("Unknown tool: " \o name))}

\* ------------------------------------------------------------ agent.py: run

\* TOOL_SCHEMAS: the last tool carries the cache breakpoint of the tools array.
TOOL_SCHEMAS ==
    << [name |-> "search_drive", cache_control |-> FALSE],
       [name |-> "list_files", cache_control |-> FALSE],
       [name |-> "read_document", cache_control |-> TRUE] >>

\* system_payload: a one-block list with a cache hint, or None.
SystemPayload(prompt) ==
    IF prompt # ""
    THEN <<[type |-> "text", text |-> prompt, cache_control |-> TRUE]>>
    ELSE <<>>

\* kwargs of client.messages.create; "system" is set only for a truthy payload.
Kwargs ==
    [tools |-> TOOL_SCHEMAS, messages |-> messages,
     system |-> SystemPayload(system_prompt)]

\* Mutant of LoopContinues: the budget is compared after the call it allows.
LoopContinuesOneMore(t, m) == t <= m

\* The guard of the while loop.
LoopContinues(t, m) == t < m

\* getattr(response.usage, name, 0) or 0
CacheCount(c) == IF c.tag = "int" THEN c.v ELSE 0

\* Mutant of AddUsage: the counter is overwritten with the turn's value.
AddUsageOverwrites(total, n) == n

\* total += the turn's counter
AddUsage(total, n) == total + n

\* Mutant of AnswerOf: the text of the first block only.
AnswerOfFirstBlock(content) ==
    IF content # <<>> /\ "text" \in DOMAIN Head(content)
    THEN Head(content).text ELSE ""

\* answer: the concatenation of the text of the blocks that have one.
RECURSIVE AnswerOf(_)
AnswerOf(content) ==
    IF content = <<>> THEN ""
    ELSE (IF "text" \in DOMAIN Head(content) THEN Head(content).text ELSE "")
         \o AnswerOf(Tail(content))

\* tool_blocks = [b for b in response.content if b.type == "tool_use"]
IsToolUse(b) == b.type = "tool_use"
ToolBlocksOf(content) == SelectSeq(content, IsToolUse)

\* The outcome of invocation i of the batch, once finished.
OutcomeOf(fs, i) == (CHOOSE f \in {fs[k] : k \in 1..Len(fs)} : f.idx = i).outcome

\* Mutant of RawResults: the outcomes in the order of completion.
RawResultsAsCompleted(blocks, fs) == [i \in 1..Len(blocks) |-> fs[i].outcome]

\* list(executor.map(...)): the outcomes in the order of tool_blocks, whatever
\* the order of completion.
RawResults(blocks, fs) == [i \in 1..Len(blocks) |-> OutcomeOf(fs, i)]

\* Mutant of ResultContent: a result of exactly the minimum length gets no hint.
ResultContentAboveMin(res, is_last) ==
    IF is_last /\ res.len > CACHE_MIN_LEN
    THEN [kind |-> "list", text |-> res, cache_control |-> TRUE]
    ELSE [kind |-> "str", text |-> res, cache_control |-> FALSE]

\* The content of one tool_result: the last result of the batch, if long enough,
\* becomes a one-block list with a cache hint; otherwise the plain string.
ResultContent(res, is_last) ==
    IF is_last /\ res.len >= CACHE_MIN_LEN
    THEN [kind |-> "list", text |-> res, cache_control |-> TRUE]
    ELSE [kind |-> "str", text |-> res, cache_control |-> FALSE]

\* Mutant of ToolResults: the last block of the batch gets no result.
ToolResultsButLast(blocks, raw) ==
    [i \in 1..(Min(Len(blocks), Len(raw)) - 1) |->
        [type |-> "tool_result",
         tool_use_id |-> blocks[i].id,
         content |-> ResultContent(raw[i].value, i = Len(blocks))]]

\* tool_results, built from zip(tool_blocks, raw_results).
ToolResults(blocks, raw) ==
    [i \in 1..Min(Len(blocks), Len(raw)) |->
        [type |-> "tool_result",
         tool_use_id |-> blocks[i].id,
         content |-> ResultContent(raw[i].value, i = Len(blocks))]]

\* The block whose exception list(executor.map(...)) re-raises: the first, in the
\* order of tool_blocks, that raised.
FirstRaised(blocks, fs) ==
    LET raised == {i \in 1..Len(blocks) : OutcomeOf(fs, i).kind = "raise"}
    IN  blocks[CHOOSE i \in raised : \A j \in raised : i <= j]

ToolError(block) == [kind |-> "ToolError", tool_use_id |-> block.id,
                     name |-> block.name]
\* Mutant of MaxTurnsExceeded: the message records the turn counter.
MaxTurnsExceededRecordsTurns(m) == [kind |-> "MaxTurnsExceeded", max_turns |-> turns]

MaxTurnsExceeded(m) == [kind |-> "MaxTurnsExceeded", max_turns |-> m]
NoFailure == [kind |-> "none"]
NoResult == [answer |-> "<none>"]

\* The state after the lines 31-46 of run(question, system_prompt, max_turns).
RunInit ==
    /\ max_turns \in 1..MaxTurnsBound
    /\ system_prompt \in {"", "You are a research assistant."}
    /\ messages = <<[role |-> "user", content |-> "question"]>>
    /\ total_input_tokens = 0
    /\ total_output_tokens = 0
    /\ total_cache_read_tokens = 0
    /\ total_cache_creation_tokens = 0
    /\ total_tool_calls = 0
    /\ turns = 0
    /\ response = NoResponse
    /\ tool_blocks = <<>>
    /\ futures = <<>>
    /\ pc = "loop"
    /\ result = NoResult
    /\ failure = NoFailure
    /\ requests = <<>>
    /\ call_log = <<>>
    /\ produced = {}

\* Lines 48-58: one more turn, the call, the response r and its usage.
Call(r) ==
    /\ pc = "loop"
    /\ LoopContinues(turns, max_turns)
    /\ turns' = turns + 1
    /\ futures' = <<>>
    /\ requests' = Append(requests, Kwargs)
    /\ response' = r
    /\ call_log' = Append(call_log, [stop_reason |-> r.stop_reason,
                                     usage |-> r.usage])
    /\ total_input_tokens' = AddUsage(total_input_tokens, r.usage.input_tokens)
    /\ total_output_tokens' = AddUsage(total_output_tokens, r.usage.output_tokens)
    /\ total_cache_read_tokens' =
           AddUsage(total_cache_read_tokens,
                    CacheCount(r.usage.cache_read_input_tokens))
    /\ total_cache_creation_tokens' =
           AddUsage(total_cache_creation_tokens,
                    CacheCount(r.usage.cache_creation_input_tokens))

\* Lines 60-73: stop_reason "end_turn": run returns its result.
EndTurn ==
    \E r \in EndTurnResponses :
        /\ Call(r)
        /\ result' = [answer |-> AnswerOf(r.content),
                      input_tokens |-> total_input_tokens',
                      output_tokens |-> total_output_tokens',
                      cache_read_tokens |-> total_cache_read_tokens',
                      cache_creation_tokens |-> total_cache_creation_tokens',
                      tool_calls |-> total_tool_calls,
                      turns |-> turns']
        /\ pc' = "returned"
        /\ UNCHANGED <<max_turns, system_prompt, messages, total_tool_calls,
                       tool_blocks, failure, produced>>

\* Lines 75-82: stop_reason "tool_use": the assistant message is appended and
\* the pool is created; ThreadPoolExecutor(max_workers=0) raises ValueError.
ToolUse ==
    \E r \in ToolUseResponses(turns + 1, MaxToolCalls - total_tool_calls) :
        /\ Call(r)
        /\ messages' = Append(messages, [role |-> "assistant",
                                         content |-> r.content])
        /\ tool_blocks' = ToolBlocksOf(r.content)
        /\ total_tool_calls' = total_tool_calls + Len(tool_blocks')
        /\ IF Len(tool_blocks') = 0
           THEN pc' = "raised" /\ failure' = [kind |-> "ValueError"]
           ELSE pc' = "dispatch" /\ failure' = failure
        /\ UNCHANGED <<max_turns, system_prompt, result, produced>>

\* Lines 109-111: any other stop_reason: break, then the raise after the loop.
OtherStop ==
    \E r \in OtherStopResponses :
        /\ Call(r)
        /\ pc' = "raised"
        /\ failure' = MaxTurnsExceeded(max_turns)
        /\ UNCHANGED <<max_turns, system_prompt, messages, total_tool_calls,
                       tool_blocks, result, produced>>

\* Mutant of BackendFails: the exception is swallowed and the loop goes on to
\* another call.
BackendFailsAndRetries ==
    /\ pc = "loop"
    /\ LoopContinues(turns, max_turns)
    /\ turns' = turns + 1
    /\ futures' = <<>>
    /\ requests' = Append(requests, Kwargs)
    /\ UNCHANGED <<max_turns, system_prompt, messages, total_input_tokens,
                   total_output_tokens, total_cache_read_tokens,
                   total_cache_creation_tokens, total_tool_calls, response,
                   tool_blocks, pc, result, failure, call_log, produced>>

\* Line 53: client.messages.create raises (network, auth, rate limit).
BackendFails ==
    /\ pc = "loop"
    /\ LoopContinues(turns, max_turns)
    /\ turns' = turns + 1
    /\ futures' = <<>>
    /\ requests' = Append(requests, Kwargs)
    /\ pc' = "raised"
    /\ failure' = [kind |-> "APIError"]
    /\ UNCHANGED <<max_turns, system_prompt, messages, total_input_tokens,
                   total_output_tokens, total_cache_read_tokens,
                   total_cache_creation_tokens, total_tool_calls, response,
                   tool_blocks, result, call_log, produced>>

\* Lines 83-86: one worker thread of the pool finishes execute_tool for its block.
Pending == {i \in 1..Len(tool_blocks) : \A k \in 1..Len(futures) : futures[k].idx # i}

ToolFinishes ==
    /\ pc = "dispatch"
    /\ \E i \in Pending :
         \E o \in ExecuteTool(tool_blocks[i].name) :
            /\ futures' = Append(futures, [idx |-> i, outcome |-> o])
            /\ produced' = produced \cup {[id |-> tool_blocks[i].id,
                                              outcome |-> o]}
    /\ UNCHANGED <<max_turns, system_prompt, messages, total_input_tokens,
                   total_output_tokens, total_cache_read_tokens,
                   total_cache_creation_tokens, total_tool_calls, turns,
                   response, tool_blocks, pc, result, failure, requests,
                   call_log>>

AllFinished == Pending = {}
SomeRaised == \E k \in 1..Len(futures) : futures[k].outcome.kind = "raise"

\* Mutant of Gather: with the budget used up, the results of the last batch are
\* dropped and the run ends at once.
GatherDropsLastBatch ==
    /\ pc = "dispatch"
    /\ AllFinished
    /\ ~SomeRaised
    /\ IF LoopContinues(turns, max_turns)
       THEN /\ messages' = Append(messages,
                   [role |-> "user",
                    content |-> ToolResults(tool_blocks,
                                            RawResults(tool_blocks, futures))])
            /\ pc' = "loop"
            /\ failure' = failure
       ELSE /\ messages' = messages
            /\ pc' = "raised"
            /\ failure' = MaxTurnsExceeded(max_turns)
    /\ UNCHANGED <<max_turns, system_prompt, total_input_tokens,
                   total_output_tokens, total_cache_read_tokens,
                   total_cache_creation_tokens, total_tool_calls, turns,
                   response, tool_blocks, futures, result, requests, call_log,
                   produced>>

\* Mutant of Gather: the results that are there are appended as soon as one
\* invocation has finished, without waiting for the others.
GatherWithoutBarrier ==
    /\ pc = "dispatch"
    /\ futures # <<>>
    /\ ~SomeRaised
    /\ messages' = Append(messages,
           [role |-> "user",
            content |-> [k \in 1..Len(futures) |->
                [type |-> "tool_result",
                 tool_use_id |-> tool_blocks[futures[k].idx].id,
                 content |-> ResultContent(futures[k].outcome.value,
                                           k = Len(futures))]]])
    /\ IF LoopContinues(turns, max_turns)
       THEN pc' = "loop" /\ failure' = failure
       ELSE pc' = "raised" /\ failure' = MaxTurnsExceeded(max_turns)
    /\ UNCHANGED <<max_turns, system_prompt, total_input_tokens,
                   total_output_tokens, total_cache_read_tokens,
                   total_cache_creation_tokens, total_tool_calls, turns,
                   response, tool_blocks, futures, result, requests, call_log,
                   produced>>

\* Lines 82-107 and 111: the pool is left once every worker has finished; the
\* results are wrapped and appended, and the loop goes on or, with the budget
\* used up, ends in the raise after the loop.
Gather ==
    /\ pc = "dispatch"
    /\ AllFinished
    /\ ~SomeRaised
    /\ messages' = Append(messages,
           [role |-> "user",
            content |-> ToolResults(tool_blocks,
                                    RawResults(tool_blocks, futures))])
    /\ IF LoopContinues(turns, max_turns)
       THEN pc' = "loop" /\ failure' = failure
       ELSE pc' = "raised" /\ failure' = MaxTurnsExceeded(max_turns)
    /\ UNCHANGED <<max_turns, system_prompt, total_input_tokens,
                   total_output_tokens, total_cache_read_tokens,
                   total_cache_creation_tokens, total_tool_calls, turns,
                   response, tool_blocks, futures, result, requests, call_log,
                   produced>>

\* Lines 83-86: executor.map re-raises the exception of a tool; nothing catches
\* it, and it leaves run once the pool has shut down.
GatherRaises ==
    /\ pc = "dispatch"
    /\ AllFinished
    /\ SomeRaised
    /\ pc' = "raised"
    /\ failure' = ToolError(FirstRaised(tool_blocks, futures))
    /\ UNCHANGED <<max_turns, system_prompt, messages, total_input_tokens,
                   total_output_tokens, total_cache_read_tokens,
                   total_cache_creation_tokens, total_tool_calls, turns,
                   response, tool_blocks, futures, result, requests, call_log,
                   produced>>

\* ------------------------------------------------------------ app.py: chat

Requests == 1..NumRequests

\* The parameters of run (agent.py:24) and the keywords of the call in chat's
\* worker (app.py:204-205), besides the positional question.
RunParameters == {"question", "system_prompt", "max_turns", "credentials",
                  "model", "max_tokens"}
ChatCallKeywords == {"system_prompt", "credentials", "model", "event_queue"}

\* _ALLOWED_MODELS and the fallback of chat (app.py:191-194).
AllowedModels == {"claude-sonnet-4-6", "claude-haiku-4-5-20251001",
                  "claude-opus-4-6"}
ChosenModel(m) == IF m \in AllowedModels THEN m ELSE "claude-sonnet-4-6"

\* How the call run(question, **keywords) of the worker can end: a keyword that
\* run does not declare makes the call itself raise TypeError, before any line
\* of run; otherwise run returns its result or raises.
RunOutcomes(keywords) ==
    IF keywords \subseteq {p \in RunParameters : p # "question"}
    THEN {"result", "MaxTurnsExceeded", "Exception"}
    ELSE {"TypeError"}

\* The event the worker puts for an outcome (app.py:203-210).
WorkerEvent(outcome) ==
    IF outcome = "result"
    THEN [type |-> "done", payload |-> "result"]
    ELSE IF outcome = "MaxTurnsExceeded"
    THEN [type |-> "error", payload |-> "Exceeded max_turns=12"]
    ELSE IF outcome = "TypeError"
    THEN [type |-> "error",
          payload |-> "run() got an unexpected keyword argument 'event_queue'"]
    ELSE [type |-> "error", payload |-> "backend error"]

ThinkingEvent == [type |-> "thinking"]
TimeoutEvent == [type |-> "error", payload |-> "Request timed out"]

\* Mutant of IsTerminal: only a done event ends the stream.
IsTerminalDoneOnly(e) == e.type = "done"

\* item.get("type") in ("done", "error")
IsTerminal(e) == e.type \in {"done", "error"}

NoRequest ==
    [status |-> "none", model |-> "", worker |-> "none", q |-> <<>>,
     gen |-> "none", stream |-> <<>>]

\* Lines 188-212: the body is read; without a question the answer is a 400;
\* otherwise the queue is created, the worker thread started and the streamed
\* response returned.
ChatArrives(i) ==
    /\ chat[i].status = "none"
    /\ \E question \in {"", "What is the project deadline?"},
          m \in {"", "claude-opus-4-6"} :
         chat' = [chat EXCEPT ![i] =
                    IF question = ""
                    THEN [NoRequest EXCEPT !.status = "400"]
                    ELSE [NoRequest EXCEPT !.status = "streaming",
                                           !.model = ChosenModel(m),
                                           !.worker = "started",
                                           !.gen = "created"]]

\* Lines 202-210: the worker thread calls run and puts one event.
WorkerRuns(i) ==
    /\ chat[i].worker = "started"
    /\ \E o \in RunOutcomes(ChatCallKeywords) :
         chat' = [chat EXCEPT ![i].worker = "finished",
                              ![i].q = Append(@, WorkerEvent(o))]

\* Line 215: the first event of the stream.
GenerateStarts(i) ==
    /\ chat[i].gen = "created"
    /\ chat' = [chat EXCEPT ![i].gen = "waiting",
                            ![i].stream = Append(@, ThinkingEvent)]

\* Mutant of GenerateGets: the generator still reads the queue after the stream
\* has ended.
GenerateGetsAfterEnd(i) ==
    /\ chat[i].gen \in {"waiting", "ended"}
    /\ chat[i].q # <<>>
    /\ LET item == Head(chat[i].q)
       IN  chat' = [chat EXCEPT ![i].q = Tail(@),
                                ![i].stream = Append(@, item),
                                ![i].gen = IF IsTerminal(item) THEN "ended"
                                           ELSE @]

\* Lines 218-221: q.get returns an item; it is sent, and a terminal one ends
\* the stream.
GenerateGets(i) ==
    /\ chat[i].gen = "waiting"
    /\ chat[i].q # <<>>
    /\ LET item == Head(chat[i].q)
       IN  chat' = [chat EXCEPT ![i].q = Tail(@),
                                ![i].stream = Append(@, item),
                                ![i].gen = IF IsTerminal(item) THEN "ended"
                                           ELSE "waiting"]

\* Lines 222-224: q.get(timeout=180) raises queue.Empty: nothing arrived in time.
GenerateTimesOut(i) ==
    /\ chat[i].gen = "waiting"
    /\ chat[i].q = <<>>
    /\ chat' = [chat EXCEPT ![i].gen = "ended",
                            ![i].stream = Append(@, TimeoutEvent)]

\* ---------------------------------------------------- runner.py: _is_correct

\* A line of text is the sequence of its characters.
VERDICT_MARKER == <<"V", "E", "R", "D", "I", "C", "T", ":">>
YES == <<"Y", "E", "S">>

\* The lines a judge writes: the two verdicts of the format it is asked for, a
\* verdict in lower case, the word of a verdict without the marker, a line of
\* reasoning and an empty line.
VerdictYes == VERDICT_MARKER \o <<" ">> \o YES
VerdictNo == VERDICT_MARKER \o <<" ", "N", "O">>
JudgeLines ==
    { VerdictYes,
      VerdictNo,
      <<"v", "e", "r", "d", "i", "c", "t", ":", " ", "y", "e", "s">>,
      YES,
      <<"S", "a", "m", "e", " ", "d", "a", "t", "e", ".">>,
      <<>> }

\* The texts of at most n lines.
RECURSIVE LineSeqs(_)
LineSeqs(n) ==
    IF n = 0 THEN {<<>>}
    ELSE LET shorter == LineSeqs(n - 1)
         IN  shorter \cup
             {Append(t, l) : t \in {u \in shorter : Len(u) = n - 1},
                             l \in JudgeLines}

\* msg.content[0].text, as the list of its lines.
JudgeTexts == LineSeqs(MaxLines)

\* str.upper, for the letters of JudgeLines.
UpperChar(c) ==
    CASE c = "a" -> "A" [] c = "c" -> "C" [] c = "d" -> "D" [] c = "e" -> "E"
      [] c = "i" -> "I" [] c = "m" -> "M" [] c = "r" -> "R" [] c = "s" -> "S"
      [] c = "t" -> "T" [] c = "v" -> "V" [] c = "y" -> "Y"
      [] OTHER -> c
Upper(line) == [k \in 1..Len(line) |-> UpperChar(line[k])]

\* needle in line
Contains(line, needle) ==
    \E k \in 0..(Len(line) - Len(needle)) :
        SubSeq(line, k + 1, k + Len(needle)) = needle

\* text.strip().splitlines(): the empty lines at both ends are gone.
RECURSIVE Strip(_)
Strip(text) ==
    IF text = <<>> THEN <<>>
    ELSE IF Head(text) = <<>> THEN Strip(Tail(text))
    ELSE IF text[Len(text)] = <<>> THEN Strip(SubSeq(text, 1, Len(text) - 1))
    ELSE text

\* Mutant of ScanReversed: the lines are scanned from the first.
RECURSIVE ScanForward(_, _)
ScanForward(lines, k) ==
    IF lines = <<>> THEN FALSE
    ELSE IF Contains(Upper(Head(lines)), VERDICT_MARKER)
    THEN Contains(Upper(Head(lines)), YES)
    ELSE ScanForward(Tail(lines), k)

\* for line in reversed(lines), from line k down: the first line with the
\* marker decides; False when there is none.
RECURSIVE ScanReversed(_, _)
ScanReversed(lines, k) ==
    IF k = 0 THEN FALSE
    ELSE IF Contains(Upper(lines[k]), VERDICT_MARKER)
    THEN Contains(Upper(lines[k]), YES)
    ELSE ScanReversed(lines, k - 1)

\* What _is_correct returns for the judge's text.
IsCorrect(text) == ScanReversed(Strip(text), Len(Strip(text)))

JudgeIdle == judge = [text |-> <<>>, state |-> "idle", verdict |-> FALSE]

\* Lines 53-63: the judge has answered with some text.
JudgeInit ==
    \E t \in JudgeTexts : judge = [text |-> t, state |-> "called",
                                   verdict |-> FALSE]

\* Lines 64-67: the verdict is extracted and returned.
JudgeReturns ==
    /\ judge.state = "called"
    /\ judge' = [judge EXCEPT !.state = "returned",
                              !.verdict = IsCorrect(judge.text)]

\* ------------------------------------- runner.py: _run_prompt and run_eval

\* How run(question, ..., max_turns=5) ends in the harness: a result dict or an
\* exception with its message.
RunReturns ==
    { [kind |-> "result", answer |-> "March 3", input_tokens |-> 12,
       output_tokens |-> 5, cache_read_tokens |-> 4,
       cache_creation_tokens |-> 1, tool_calls |-> 1, turns |-> 2],
      [kind |-> "result", answer |-> "I could not find it.", input_tokens |-> 5,
       output_tokens |-> 2, cache_read_tokens |-> 0,
       cache_creation_tokens |-> 0, tool_calls |-> 0, turns |-> 1] }
RunRaises ==
    { [kind |-> "raise", type |-> "MaxTurnsExceeded",
       message |-> "Exceeded max_turns=5"],
      [kind |-> "raise", type |-> "APIError", message |-> "Connection error."] }

\* How the call of the judge ends: a verdict, or an exception of the client.
JudgeVerdicts == {IsCorrect(t) : t \in JudgeTexts}
JudgeOutcomes ==
    {[kind |-> "verdict", correct |-> c] : c \in JudgeVerdicts}
    \cup {[kind |-> "raise", type |-> "APIError", message |-> "Overloaded"]}

\* Lines 78-81: the result of the except branch.
ErrorResult(e) ==
    [answer |-> "ERROR: " \o e.message, input_tokens |-> 0, output_tokens |-> 0,
     cache_read_tokens |-> 0, cache_creation_tokens |-> 0, tool_calls |-> 0,
     turns |-> 0]

\* Lines 82-94: the row appended for question id.
Row(id, res, correct) ==
    [id |-> id, response |-> res.answer, correct |-> correct,
     input_tokens |-> res.input_tokens, output_tokens |-> res.output_tokens,
     cache_read_tokens |-> res.cache_read_tokens,
     cache_creation_tokens |-> res.cache_creation_tokens,
     tool_calls |-> res.tool_calls, turns |-> res.turns]

\* Mutant of TryQuestion: when only the judge raised, the row keeps the answer
\* and the usage of the run.
TryQuestionKeepsRun(id, r, j) ==
    IF r.kind = "raise" THEN Row(id, ErrorResult(r), FALSE)
    ELSE IF j.kind = "raise" THEN Row(id, r, FALSE)
    ELSE Row(id, r, j.correct)

\* Lines 74-81: the try block for one question, given how run and the judge end
\* (the judge is called only when run returned).
TryQuestion(id, r, j) ==
    IF r.kind = "raise" THEN Row(id, ErrorResult(r), FALSE)
    ELSE IF j.kind = "raise" THEN Row(id, ErrorResult(j), FALSE)
    ELSE Row(id, r, j.correct)

\* sum(f(r) for r in results)
RECURSIVE SumOver(_, _)
SumOver(results, field) ==
    IF results = <<>> THEN 0
    ELSE (IF field = "correct"
          THEN (IF Head(results).correct THEN 1 ELSE 0)
          ELSE Head(results)[field])
         + SumOver(Tail(results), field)

\* Mutant of Denominator: only the rows of runs that returned are counted.
DenominatorOfReturned(results) ==
    Len(SelectSeq(results, LAMBDA r : r.turns > 0))

\* n = len(results)
Denominator(results) == Len(results)

\* _averages: every mean as the pair <<sum, n>> of the quotient sum / n; {} for
\* no results.
Averages(results) ==
    LET n == Denominator(results)
    IN  IF n = 0 THEN <<>>
        ELSE [accuracy |-> <<SumOver(results, "correct"), n>>,
              avg_input_tokens |-> <<SumOver(results, "input_tokens"), n>>,
              avg_output_tokens |-> <<SumOver(results, "output_tokens"), n>>,
              avg_cache_read_tokens |->
                  <<SumOver(results, "cache_read_tokens"), n>>,
              avg_cache_creation_tokens |->
                  <<SumOver(results, "cache_creation_tokens"), n>>,
              avg_tool_calls |-> <<SumOver(results, "tool_calls"), n>>,
              avg_turns |-> <<SumOver(results, "turns"), n>>]

\* Mutant of Variants: every prompt passed is kept.
VariantsUntruncated(prompts) == IF prompts = 0 THEN 1 ELSE prompts

\* Lines 170-172: no prompt means the default prompt; at most two are kept.
Variants(prompts) ==
    IF prompts = 0 THEN 1
    ELSE IF prompts <= EVAL_MAX_VARIANTS THEN prompts ELSE EVAL_MAX_VARIANTS

HarnessIdle ==
    harness = [questions |-> 0, prompts |-> 0, variant |-> 0, state |-> "idle",
               prompt_results |-> <<>>, calls |-> <<>>, judged |-> <<>>,
               averages |-> <<>>]

\* Lines 170-178: run_eval(prompts) has loaded the questions and is about to
\* run the first variant.
EvalInit ==
    \E n \in 0..MaxQuestions, p \in 0..MaxPrompts :
        harness = [questions |-> n, prompts |-> p, variant |-> 1,
                   state |-> "running", prompt_results |-> <<<<>>>>,
                   calls |-> <<>>, judged |-> <<>>, averages |-> <<>>]

\* The rows of the variant being run.
CurrentRows == harness.prompt_results[harness.variant]

\* Lines 72-94: one iteration of the loop of _run_prompt: the run, the judge
\* and the appended row.
RunQuestion ==
    /\ harness.state = "running"
    /\ Len(CurrentRows) < harness.questions
    /\ LET id == Len(CurrentRows) + 1
       IN  \E r \in RunReturns \cup RunRaises, j \in JudgeOutcomes :
              harness' =
                [harness EXCEPT
                   !.prompt_results[harness.variant] =
                       Append(@, TryQuestion(id, r, j)),
                   !.calls = @ \o <<[step |-> "run", variant |-> harness.variant,
                                     id |-> id]>>
                               \o (IF r.kind = "result"
                                   THEN <<[step |-> "judge",
                                           variant |-> harness.variant,
                                           id |-> id]>>
                                   ELSE <<>>),
                   !.judged = IF r.kind = "result" THEN Append(@, j.kind)
                              ELSE @]

\* Lines 179-183: _run_prompt has returned; the next variant starts, if any.
NextVariant ==
    /\ harness.state = "running"
    /\ Len(CurrentRows) = harness.questions
    /\ harness.variant < Variants(harness.prompts)
    /\ harness' = [harness EXCEPT !.variant = @ + 1,
                                  !.prompt_results = Append(@, <<>>)]

\* Lines 185 and 140-143: the table, with the averages of every variant that
\* has rows.
PrintTable ==
    /\ harness.state = "running"
    /\ Len(CurrentRows) = harness.questions
    /\ harness.variant = Variants(harness.prompts)
    /\ harness' = [harness EXCEPT
                     !.state = "done",
                     !.averages = [v \in 1..Len(harness.prompt_results) |->
                                      Averages(harness.prompt_results[v])]]

\* ------------------------------------------ agent.py: concurrent calls of run

\* The threads of the server that call run (app.run(threaded=True)).
Threads == 1..NumRequests

\* The max_turns of the call of thread i: the threads have different budgets,
\* from 1 to MaxThreadTurns.
ThreadBudget(i) == 1 + (i % MaxThreadTurns)

\* The locals of a call of run(question, max_turns=m) that has not started.
ThreadStart(m) ==
    [pc |-> "start", client |-> 0, max_turns |-> m,
     messages |-> <<[role |-> "user", content |-> "question"]>>,
     totals |-> <<0, 0, 0, 0>>, tool_calls |-> 0, turns |-> 0,
     response |-> NoResponse, result |-> NoResult, failure |-> NoFailure]

\* What the stubbed backend answers a thread in turn t: a final answer, or a
\* request for one document.
ThreadResponses(t) ==
    {r \in EndTurnResponses : Len(r.content) = 1}
    \cup {r \in ToolUseResponses(t, 1) :
            /\ ToolBlocksOf(r.content) =
                  <<ToolUseBlock(<<t, 1>>, "read_document")>>
            /\ r.usage.cache_read_input_tokens = Count(4)}

\* Mutant of TurnCounter: the counter is one the calls of run share.
TurnCounterShared(p, i) ==
    LET RECURSIVE Sum(_)
        Sum(k) == IF k = 0 THEN 0 ELSE p.runs[k].turns + Sum(k - 1)
    IN  Sum(NumRequests)

\* turns, a local of the call.
TurnCounter(p, i) == p.runs[i].turns

\* Lines 48-79 and 109-111 on the locals s of a call: the turn t, the response
\* r, its usage and its stop_reason.
Responded(s, t, r) ==
    LET u == [s EXCEPT
                !.turns = t,
                !.response = r,
                !.totals =
                   << AddUsage(@[1], r.usage.input_tokens),
                      AddUsage(@[2], r.usage.output_tokens),
                      AddUsage(@[3], CacheCount(r.usage.cache_read_input_tokens)),
                      AddUsage(@[4],
                               CacheCount(r.usage.cache_creation_input_tokens)) >>]
        blocks == ToolBlocksOf(r.content)
    IN  IF r.stop_reason = "end_turn"
        THEN [u EXCEPT !.pc = "returned",
                       !.result = [answer |-> AnswerOf(r.content),
                                   input_tokens |-> u.totals[1],
                                   output_tokens |-> u.totals[2],
                                   cache_read_tokens |-> u.totals[3],
                                   cache_creation_tokens |-> u.totals[4],
                                   tool_calls |-> u.tool_calls,
                                   turns |-> u.turns]]
        ELSE IF r.stop_reason = "tool_use"
        THEN [u EXCEPT !.messages = Append(@, [role |-> "assistant",
                                               content |-> r.content]),
                       !.tool_calls = @ + Len(blocks),
                       !.pc = IF Len(blocks) = 0 THEN "raised" ELSE "dispatch",
                       !.failure = IF Len(blocks) = 0
                                   THEN [kind |-> "ValueError"] ELSE @]
        ELSE [u EXCEPT !.pc = "raised",
                       !.failure = MaxTurnsExceeded(s.max_turns)]

\* Line 53 raises, in turn t.
Failed(s, t) ==
    [s EXCEPT !.turns = t, !.pc = "raised", !.failure = [kind |-> "APIError"]]

\* Lines 82-107 and 111 on the locals s of a call, with the outcomes of the
\* invocations in the order of the blocks.
Gathered(s, outs) ==
    LET blocks == ToolBlocksOf(s.response.content)
        raised == {k \in 1..Len(outs) : outs[k].kind = "raise"}
    IN  IF raised # {}
        THEN [s EXCEPT !.pc = "raised",
                       !.failure = ToolError(
                          blocks[CHOOSE k \in raised : \A j \in raised : k <= j])]
        ELSE LET u == [s EXCEPT !.messages =
                          Append(@, [role |-> "user",
                                     content |-> ToolResults(blocks, outs)])]
             IN  IF LoopContinues(s.turns, s.max_turns)
                 THEN [u EXCEPT !.pc = "loop"]
                 ELSE [u EXCEPT !.pc = "raised",
                                !.failure = MaxTurnsExceeded(s.max_turns)]

PoolIdle ==
    pool = [client |-> 0, made |-> 0, tools |-> TOOL_SCHEMAS, runs |-> <<>>,
            scripts |-> <<>>]

\* The module is imported (_client = None, TOOL_SCHEMAS) and every thread is
\* about to call run.
PoolInit ==
    pool = [client |-> 0, made |-> 0, tools |-> TOOL_SCHEMAS,
            runs |-> [i \in Threads |-> ThreadStart(ThreadBudget(i))],
            scripts |-> [i \in Threads |-> <<>>]]

\* Line 15 of _get_client: if not _client.
ClientChecked(i) ==
    /\ pool.runs[i].pc = "start"
    /\ pool' = [pool EXCEPT
                  !.runs[i].pc = IF pool.client = 0 THEN "construct"
                                 ELSE "return"]

\* Line 16: _client = anthropic.Anthropic(...).
ClientConstructed(i) ==
    /\ pool.runs[i].pc = "construct"
    /\ pool' = [pool EXCEPT !.made = @ + 1,
                            !.client = pool.made + 1,
                            !.runs[i].pc = "return"]

\* Lines 17 and 31: return _client; client = _get_client().
ClientReturned(i) ==
    /\ pool.runs[i].pc = "return"
    /\ pool' = [pool EXCEPT !.runs[i].client = pool.client,
                            !.runs[i].pc = "loop"]

\* Lines 48-79: one turn of the call of thread i and its response.
ThreadCalls(i) ==
    /\ pool.runs[i].pc = "loop"
    /\ LoopContinues(TurnCounter(pool, i), pool.runs[i].max_turns)
    /\ \E r \in ThreadResponses(TurnCounter(pool, i) + 1) :
         pool' = [pool EXCEPT
                    !.runs[i] = Responded(@, TurnCounter(pool, i) + 1, r),
                    !.scripts[i] = Append(@, [kind |-> "response",
                                              response |-> r])]

\* Line 53 raises in the call of thread i.
ThreadCallFails(i) ==
    /\ pool.runs[i].pc = "loop"
    /\ LoopContinues(TurnCounter(pool, i), pool.runs[i].max_turns)
    /\ pool' = [pool EXCEPT
                  !.runs[i] = Failed(@, TurnCounter(pool, i) + 1),
                  !.scripts[i] = Append(@, [kind |-> "failure"])]

\* Lines 82-107: the batch of the call of thread i is executed and gathered.
ThreadGathers(i) ==
    /\ pool.runs[i].pc = "dispatch"
    /\ LET blocks == ToolBlocksOf(pool.runs[i].response.content)
       IN  \E outs \in [1..Len(blocks) -> ExecuteTool("read_document")] :
              pool' = [pool EXCEPT
                         !.runs[i] = Gathered(@, outs),
                         !.scripts[i] = Append(@, [kind |-> "tools",
                                                   outcomes |-> outs])]

\* ------------------------------------------------------- specifications

ChatIdle == chat = <<>>

\* One call of run, with no /chat request.
Init == RunInit /\ ChatIdle /\ JudgeIdle /\ HarnessIdle /\ PoolIdle

Next ==
    \/ EndTurn /\ UNCHANGED others
    \/ ToolUse /\ UNCHANGED others
    \/ OtherStop /\ UNCHANGED others
    \/ BackendFails /\ UNCHANGED others
    \/ ToolFinishes /\ UNCHANGED others
    \/ Gather /\ UNCHANGED others
    \/ GatherRaises /\ UNCHANGED others

Spec == Init /\ [][Next]_vars

\* The /chat requests of one server process; run's own variables stay parked.
ChatInit ==
    /\ RunInit
    /\ max_turns = 1
    /\ system_prompt = ""
    /\ chat = [i \in Requests |-> NoRequest]
    /\ JudgeIdle
    /\ HarnessIdle
    /\ PoolIdle

Generate(i) == GenerateStarts(i) \/ GenerateGets(i) \/ GenerateTimesOut(i)

ChatNext ==
    \/ \E i \in Requests : ChatArrives(i) /\ UNCHANGED besidesChat
    \/ \E i \in Requests : WorkerRuns(i) /\ UNCHANGED besidesChat
    \/ \E i \in Requests : GenerateStarts(i) /\ UNCHANGED besidesChat
    \/ \E i \in Requests : GenerateGets(i) /\ UNCHANGED besidesChat
    \/ \E i \in Requests : GenerateTimesOut(i) /\ UNCHANGED besidesChat

\* The server keeps iterating a response it has started to stream, and q.get
\* returns or times out: the generator always takes its next step.
ChatSpec ==
    /\ ChatInit
    /\ [][ChatNext]_vars
    /\ \A i \in Requests : WF_vars(Generate(i) /\ UNCHANGED besidesChat)

\* run's own variables, with no run going on.
RunParked ==
    /\ RunInit
    /\ max_turns = 1
    /\ system_prompt = ""

\* One call of _is_correct.
JudgeSpecInit == RunParked /\ ChatIdle /\ HarnessIdle /\ PoolIdle /\ JudgeInit

JudgeNext == JudgeReturns /\ UNCHANGED <<runVars, chat, harness, pool>>

JudgeSpec == JudgeSpecInit /\ [][JudgeNext]_vars

\* One call of run_eval.
EvalSpecInit == RunParked /\ ChatIdle /\ JudgeIdle /\ PoolIdle /\ EvalInit

EvalNext ==
    \/ RunQuestion /\ UNCHANGED <<runVars, chat, judge, pool>>
    \/ NextVariant /\ UNCHANGED <<runVars, chat, judge, pool>>
    \/ PrintTable /\ UNCHANGED <<runVars, chat, judge, pool>>

EvalSpec == EvalSpecInit /\ [][EvalNext]_vars

\* The threads that call run at the same time.
PoolSpecInit == RunParked /\ ChatIdle /\ JudgeIdle /\ HarnessIdle /\ PoolInit

besidesPool == <<runVars, chat, judge, harness>>

PoolNext ==
    \/ \E i \in Threads : ClientChecked(i) /\ UNCHANGED besidesPool
    \/ \E i \in Threads : ClientConstructed(i) /\ UNCHANGED besidesPool
    \/ \E i \in Threads : ClientReturned(i) /\ UNCHANGED besidesPool
    \/ \E i \in Threads : ThreadCalls(i) /\ UNCHANGED besidesPool
    \/ \E i \in Threads : ThreadCallFails(i) /\ UNCHANGED besidesPool
    \/ \E i \in Threads : ThreadGathers(i) /\ UNCHANGED besidesPool

PoolSpec == PoolSpecInit /\ [][PoolNext]_vars

\* ================================================================== claims

\* ---- vocabulary of the claims about run

Terminated == pc \in {"returned", "raised"}
BackendCalls == Len(requests)
\* Every call was answered, and with stop_reason "tool_use".
AlwaysToolUse ==
    /\ Len(call_log) = Len(requests)
    /\ \A k \in 1..Len(call_log) : call_log[k].stop_reason = "tool_use"

\* The messages of a conversation that hold tool results: every user message
\* but the question.
IsResultMessage(msgs, j) == j > 1 /\ msgs[j].role = "user"
IsAssistant(msgs, j) == msgs[j].role = "assistant"

ResultMessages(msgs) == {j \in 1..Len(msgs) : IsResultMessage(msgs, j)}

\* The tool_use ids answered by some tool_result of the conversation.
AnsweredIds(msgs) ==
    UNION {{msgs[j].content[i].tool_use_id : i \in 1..Len(msgs[j].content)} :
             j \in ResultMessages(msgs)}

\* What execute_tool returned for the invocation id, if it returned.
ReturnedFor(id) == {p.outcome.value : p \in {x \in produced :
                        x.id = id /\ x.outcome.kind = "return"}}

\* C1: for every max_turns = N >= 1, a run whose backend answers every call
\* with stop_reason "tool_use" ends after exactly N backend calls, and ends
\* with MaxTurnsExceeded.
\* The code refutes it: a tool that raises (or a tool_use response without a
\* tool_use block) ends the run earlier with another exception.
C1_AlwaysToolUseExhaustsBudget ==
    /\ BackendCalls <= max_turns
    /\ (Terminated /\ AlwaysToolUse)
          => /\ BackendCalls = max_turns
             /\ failure = MaxTurnsExceeded(max_turns)

\* C2: after a response whose stop_reason is neither "end_turn" nor "tool_use",
\* run has returned a result whose answer is the text of that response, and has
\* not raised MaxTurnsExceeded.
\* The code refutes it: the break leads to the raise after the loop.
C2_OtherStopReturnsText ==
    (response.stop_reason \notin {"", "end_turn", "tool_use"})
        => /\ pc = "returned"
           /\ result.answer = AnswerOf(response.content)
           /\ failure.kind # "MaxTurnsExceeded"

\* C3: once the batch of an invocation that raised has been gathered, the
\* conversation holds a tool_result for that invocation and the run has not
\* failed on the tool's exception.
\* The code refutes it: nothing catches the exception between execute_tool and
\* the caller of run.
C3_ToolExceptionBecomesResult ==
    \A p \in produced :
        (p.outcome.kind = "raise" /\ pc # "dispatch")
            => /\ p.id \in AnsweredIds(messages)
               /\ failure.kind # "ToolError"

\* C4: every tool-result message of the conversation has one result per
\* tool_use block of the assistant message before it, the i-th with the id of
\* the i-th block and the string execute_tool returned for that very block,
\* whatever the order in which the invocations finished.
C4_ResultsInInvocationOrder ==
    \A j \in ResultMessages(messages) :
        LET blocks == ToolBlocksOf(messages[j - 1].content)
            results == messages[j].content
        IN  /\ IsAssistant(messages, j - 1)
            /\ Len(results) = Len(blocks)
            /\ \A i \in 1..Len(results) :
                 /\ results[i].tool_use_id = blocks[i].id
                 /\ ReturnedFor(blocks[i].id) = {results[i].content.text}

\* C4, witness: a batch of two whose second invocation finished first, with
\* two different strings, has been appended.
C4_Witness ==
    /\ pc = "loop"
    /\ Len(futures) = MaxBatch
    /\ futures[1].idx = MaxBatch
    /\ futures[1].outcome # futures[MaxBatch].outcome
    /\ Len(messages[Len(messages)].content) = MaxBatch
    /\ IsResultMessage(messages, Len(messages))

\* ---- cache hints

\* The places <<j, i>> of the tool results of a conversation that carry a
\* cache hint.
HintedResults(msgs) ==
    {ji \in ResultMessages(msgs) \X (1..MaxToolCalls) :
        /\ ji[2] <= Len(msgs[ji[1]].content)
        /\ msgs[ji[1]].content[ji[2]].content.cache_control}

LastResultMessage(msgs) ==
    CHOOSE j \in ResultMessages(msgs) : \A k \in ResultMessages(msgs) : k <= j

\* The cache breakpoints of a request: system blocks, tools, tool results.
Breakpoints(r) ==
    Cardinality({k \in 1..Len(r.system) : r.system[k].cache_control})
    + Cardinality({k \in 1..Len(r.tools) : r.tools[k].cache_control})
    + Cardinality(HintedResults(r.messages))

\* C5: in every request sent with a non-empty system prompt and at least one
\* tool-result message, at most one tool result of the whole request carries a
\* cache hint, it is the last result of the most recent batch, and the request
\* has at most three cache breakpoints.
\* The code refutes it: the hint of an earlier batch stays in the conversation,
\* so the request after two batches with a long last result carries two hinted
\* results and four breakpoints.
C5_OneHintedResultPerRequest ==
    \A k \in 1..Len(requests) :
        LET r == requests[k]
        IN  (r.system # <<>> /\ ResultMessages(r.messages) # {})
                => /\ Cardinality(HintedResults(r.messages)) <= 1
                   /\ \A ji \in HintedResults(r.messages) :
                        /\ ji[1] = LastResultMessage(r.messages)
                        /\ ji[2] = Len(r.messages[ji[1]].content)
                   /\ Breakpoints(r) <= 3

\* ---- usage counters

\* The value a response reports for a cache counter: 0 when the attribute is
\* missing or None.
Reported(c) ==
    CASE c.tag = "int" -> c.v
      [] c.tag = "none" -> 0
      [] c.tag = "missing" -> 0

\* The componentwise sum of the usage of the responses of a log.
RECURSIVE SumReported(_)
SumReported(log) ==
    IF log = <<>> THEN <<0, 0, 0, 0>>
    ELSE LET rest == SumReported(Tail(log))
             u == Head(log).usage
         IN  << rest[1] + u.input_tokens,
                rest[2] + u.output_tokens,
                rest[3] + Reported(u.cache_read_input_tokens),
                rest[4] + Reported(u.cache_creation_input_tokens) >>

Totals == <<total_input_tokens, total_output_tokens, total_cache_read_tokens,
            total_cache_creation_tokens>>

\* C6: at every point of a run the four token counters are the sums of the
\* usage reported by the backend calls so far (a missing or None cache counter
\* counting as 0), the result run returns carries these sums, and no step
\* lowers a counter.
C6_UsageIsAdditive ==
    /\ [](/\ Totals = SumReported(call_log)
          /\ pc = "returned" =>
               <<result.input_tokens, result.output_tokens,
                 result.cache_read_tokens, result.cache_creation_tokens>>
                   = SumReported(call_log))
    /\ [][/\ total_input_tokens' >= total_input_tokens
          /\ total_output_tokens' >= total_output_tokens
          /\ total_cache_read_tokens' >= total_cache_read_tokens
          /\ total_cache_creation_tokens' >= total_cache_creation_tokens]_vars

\* C6, witness: a run of three turns has returned, with responses that reported
\* different usage, one of them without cache counters.
C6_Witness ==
    /\ pc = "returned"
    /\ Len(call_log) = MaxTurnsBound
    /\ \E a, b \in 1..Len(call_log) :
         /\ call_log[a].usage.cache_read_input_tokens.tag = "none"
         /\ call_log[a].usage.cache_creation_input_tokens.tag = "missing"
         /\ call_log[b].usage.cache_read_input_tokens.tag = "int"
    /\ result.cache_read_tokens > 0

\* ---- the shape of the conversation

\* The tool-result message at j answers the assistant message at j - 1: one
\* result per tool_use block, in order, with its id.
Answers(msgs, j) ==
    LET blocks == ToolBlocksOf(msgs[j - 1].content)
    IN  /\ IsResultMessage(msgs, j)
        /\ Len(msgs[j].content) = Len(blocks)
        /\ \A i \in 1..Len(blocks) :
             /\ msgs[j].content[i].type = "tool_result"
             /\ msgs[j].content[i].tool_use_id = blocks[i].id

WellFormed(msgs) ==
    /\ msgs[1] = [role |-> "user", content |-> "question"]
    /\ \A j \in 1..Len(msgs) :
         IsAssistant(msgs, j) =>
            /\ j > 1
            /\ msgs[j - 1].role = "user"
            /\ j < Len(msgs) => Answers(msgs, j + 1)
    /\ \A j \in ResultMessages(msgs) : IsAssistant(msgs, j - 1)

\* C7: the conversation starts with the user question; every assistant message
\* that is not the last message is followed by one user message with one
\* tool_result per tool_use block, in order and with matching ids; and the
\* conversation of a request, as it was when the request was sent, is of this
\* shape and ends with a user message, so no request holds an invocation
\* without its result. (Every request is, when sent, the last of requests.)
C7_InvocationsAreAnswered ==
    /\ WellFormed(messages)
    /\ requests # <<>> =>
         LET msgs == requests[Len(requests)].messages
         IN  /\ WellFormed(msgs)
             /\ msgs[Len(msgs)].role = "user"

\* C7, witness: a request was sent after two batches, one of two invocations.
C7_Witness ==
    /\ Len(requests) = MaxTurnsBound
    /\ \E j \in ResultMessages(requests[Len(requests)].messages) :
         Len(requests[Len(requests)].messages[j].content) = MaxBatch
    /\ Cardinality(ResultMessages(requests[Len(requests)].messages)) > 1

\* ---- result or failure

\* The budget is exhausted: max_turns calls were made and the last response
\* asked for tools, which all returned.
BudgetExhausted ==
    /\ Terminated
    /\ BackendCalls = max_turns
    /\ AlwaysToolUse
    /\ IsResultMessage(messages, Len(messages))

\* C8: a run ends in a result or in a failure, never both; a run that exhausts
\* its budget has no result and fails with MaxTurnsExceeded, which records
\* max_turns; and a run that has ended makes no further backend call.
C8_ResultOrFailure ==
    /\ [](/\ (pc = "returned") = (result # NoResult)
          /\ (pc = "raised") = (failure # NoFailure)
          /\ result = NoResult \/ failure = NoFailure
          /\ BudgetExhausted =>
               /\ result = NoResult
               /\ failure = MaxTurnsExceeded(max_turns)
          /\ failure.kind = "MaxTurnsExceeded" =>
               failure.max_turns = max_turns)
    /\ [][Terminated => (pc' = pc /\ requests' = requests)]_vars

\* C8, witness: max_turns = 2, both responses asked for tools, and the run
\* ended with MaxTurnsExceeded recording 2.
C8_Witness ==
    /\ BudgetExhausted
    /\ max_turns = 2
    /\ failure.kind = "MaxTurnsExceeded"
    /\ failure.max_turns = max_turns
    /\ result = NoResult

\* ---- unknown tools

\* The assistant messages of the conversation whose batch is over: every one
\* but a last one that is still being dispatched.
GatheredBatches ==
    {j \in 1..Len(messages) :
        /\ IsAssistant(messages, j)
        /\ ~(j = Len(messages) /\ pc = "dispatch")}

\* C9: once a batch with a tool_use block whose name is not in the registry is
\* over, execute_tool has returned the string "Unknown tool: <name>" for it, the
\* conversation holds that string as the result of that block (the dispatch did
\* not end the run), and the turn counter is the number of backend calls.
\* The code refutes it when another invocation of the same batch raises: the
\* exception leaves run (C3) and the result never reaches the model.
C9_UnknownToolIsAnswered ==
    /\ turns = BackendCalls
    /\ \A j \in GatheredBatches :
         LET blocks == ToolBlocksOf(messages[j].content)
         IN  \A i \in 1..Len(blocks) :
                blocks[i].name \notin RegisteredNames =>
                   /\ ReturnedFor(blocks[i].id)
                         = {Str("Unknown tool: " \o blocks[i].name)}
                   /\ j < Len(messages)
                   /\ Answers(messages, j + 1)
                   /\ messages[j + 1].content[i].content.text
                         = Str("Unknown tool: " \o blocks[i].name)

\* ---- /chat

\* The places of the done and error events in the stream of request i.
TerminalPlaces(i) ==
    {k \in 1..Len(chat[i].stream) : chat[i].stream[k].type \in {"done", "error"}}

\* C10: the stream of a /chat request holds at most one done or error event;
\* it is the last event, and the stream ends exactly when it is sent; and every
\* stream that was started ends.
C10_OneTerminalEvent ==
    /\ [](\A i \in Requests :
            /\ Cardinality(TerminalPlaces(i)) <= 1
            /\ TerminalPlaces(i) \subseteq {Len(chat[i].stream)}
            /\ (chat[i].gen = "ended") = (TerminalPlaces(i) # {}))
    /\ \A i \in Requests :
         (chat[i].gen = "created") ~> (chat[i].gen = "ended")

\* C10, witness: one stream ended with the event of its worker, another with
\* the timeout, whose worker put its event afterwards.
C10_Witness ==
    \E i, j \in Requests :
        /\ chat[i].gen = "ended"
        /\ chat[i].worker = "finished"
        /\ chat[i].q = <<>>
        /\ Len(chat[i].stream) = 2
        /\ chat[j].gen = "ended"
        /\ chat[j].stream[Len(chat[j].stream)] = TimeoutEvent
        /\ chat[j].q # <<>>

\* The events of the stream of request i that are the timeout event.
TimeoutPlaces(i) ==
    {k \in 1..Len(chat[i].stream) : chat[i].stream[k] = TimeoutEvent}

\* C11: when the wait on the queue times out with nothing in it, the stream
\* gets one error event, "Request timed out", which is not the message of an
\* exhausted budget, and ends with it; and an ended stream never changes again,
\* so an event its worker puts later stays in the queue, undelivered.
C11_TimeoutEndsStream ==
    /\ TimeoutEvent.payload # WorkerEvent("MaxTurnsExceeded").payload
    /\ [](\A i \in Requests :
            TimeoutPlaces(i) # {} =>
               /\ TimeoutPlaces(i) = {Len(chat[i].stream)}
               /\ TerminalPlaces(i) = TimeoutPlaces(i)
               /\ chat[i].gen = "ended")
    /\ [][\A i \in Requests :
            /\ (chat[i].gen = "waiting" /\ chat[i].q = <<>>
                   /\ chat'[i].stream # chat[i].stream)
                  => /\ chat'[i].stream = Append(chat[i].stream, TimeoutEvent)
                     /\ chat'[i].gen = "ended"
            /\ chat[i].gen = "ended" => /\ chat'[i].stream = chat[i].stream
                                       /\ chat'[i].gen = "ended"]_vars

\* C11, witness: a stream ended with the timeout event, and its worker has put
\* a terminal event since, which is still in the queue.
C11_Witness ==
    \E i \in Requests :
        /\ chat[i].stream = <<ThinkingEvent, TimeoutEvent>>
        /\ chat[i].gen = "ended"
        /\ chat[i].worker = "finished"
        /\ Len(chat[i].q) = 1
        /\ IsTerminal(Head(chat[i].q))

\* ---- the judge

\* The lines of a text that hold the verdict marker, in any case.
MarkerLines(text) ==
    {k \in 1..Len(text) : Contains(Upper(text[k]), VERDICT_MARKER)}

LastMarkerLine(text) ==
    text[CHOOSE k \in MarkerLines(text) : \A m \in MarkerLines(text) : m <= k]

\* C12: _is_correct returns what the last line with the verdict marker says,
\* true for "VERDICT: YES" and false for "VERDICT: NO" (in any case), whatever
\* the marker lines before it say; and it returns false for a text without a
\* marker line.
C12_LastVerdictLineDecides ==
    judge.state = "returned" =>
        IF MarkerLines(judge.text) = {}
        THEN judge.verdict = FALSE
        ELSE /\ Upper(LastMarkerLine(judge.text)) = VerdictYes
                  => judge.verdict = TRUE
             /\ Upper(LastMarkerLine(judge.text)) = VerdictNo
                  => judge.verdict = FALSE
             /\ Upper(LastMarkerLine(judge.text)) \in {VerdictYes, VerdictNo}

\* C12, witness: a text whose first line is the verdict YES and whose last
\* marker line is the verdict NO, followed by an empty line, was judged false.
C12_Witness ==
    /\ judge.state = "returned"
    /\ judge.text = <<VerdictYes, VerdictNo, <<>> >>
    /\ judge.verdict = FALSE

\* ---- the evaluation harness

\* The run of question id of variant v failed: the judge was not called for it.
RunFailed(v, id) ==
    /\ \E k \in 1..Len(harness.calls) :
          harness.calls[k] = [step |-> "run", variant |-> v, id |-> id]
    /\ \A k \in 1..Len(harness.calls) :
          harness.calls[k] # [step |-> "judge", variant |-> v, id |-> id]

UsageFields == {"input_tokens", "output_tokens", "cache_read_tokens",
                "cache_creation_tokens", "tool_calls", "turns"}

CorrectRows(rows) == {k \in 1..Len(rows) : rows[k].correct}

\* C13: a question whose run raised (MaxTurnsExceeded or another exception) has
\* one row, with the error text as response, correct = false and every counter
\* 0; the harness goes on, so a finished variant has one row per question, in
\* order; and every mean of a variant is over the number of questions, the
\* accuracy being the number of correct rows over the number of questions.
C13_FailureRowCounts ==
    \A v \in 1..Len(harness.prompt_results) :
        LET rows == harness.prompt_results[v]
        IN  /\ \A k \in 1..Len(rows) :
                 /\ rows[k].id = k
                 /\ RunFailed(v, k) =>
                      /\ rows[k].response \in
                            {"ERROR: " \o e.message : e \in RunRaises}
                      /\ rows[k].correct = FALSE
                      /\ \A f \in UsageFields : rows[k][f] = 0
            /\ harness.state = "done" =>
                 /\ Len(rows) = harness.questions
                 /\ harness.questions > 0 =>
                      /\ Cardinality(DOMAIN harness.averages[v]) = 7
                      /\ \A f \in DOMAIN harness.averages[v] :
                            harness.averages[v][f][2] = harness.questions
                      /\ harness.averages[v].accuracy =
                            <<Cardinality(CorrectRows(rows)), harness.questions>>

\* C13, witness: a finished variant of two questions, the first with a run that
\* exceeded its budget and the second judged correct: accuracy 1/2.
C13_Witness ==
    /\ harness.state = "done"
    /\ harness.questions = 2
    /\ RunFailed(1, 1)
    /\ harness.prompt_results[1][1].response = "ERROR: Exceeded max_turns=5"
    /\ harness.prompt_results[1][2].correct
    /\ harness.averages[1].accuracy = <<1, 2>>

\* ---- concurrent runs

\* The locals of a call of run that makes the steps of a script with no other
\* call beside it.
RECURSIVE Replay(_, _)
Replay(s, script) ==
    IF script = <<>> THEN s
    ELSE LET e == Head(script)
             next == CASE e.kind = "response" ->
                             Responded(s, s.turns + 1, e.response)
                       [] e.kind = "failure" -> Failed(s, s.turns + 1)
                       [] e.kind = "tools" -> Gathered(s, e.outcomes)
         IN  Replay(next, Tail(script))

Alone(i) ==
    Replay([ThreadStart(pool.runs[i].max_turns) EXCEPT !.pc = "loop"],
           pool.scripts[i])

InLoop(i) == pool.runs[i].pc \in {"loop", "dispatch", "returned", "raised"}

CallFailed == requests' # requests /\ call_log' = call_log

\* C15: a backend call that raises ends the run at that call: run raises the
\* failure, which is not MaxTurnsExceeded, returns no result, and sends no
\* further request, whatever is left of the budget.
C15_BackendFailureEndsRun ==
    /\ [][CallFailed => /\ pc' = "raised"
                        /\ failure'.kind = "APIError"
                        /\ result' = NoResult]_vars
    /\ [](failure.kind = "APIError" =>
             /\ pc = "raised"
             /\ result = NoResult
             /\ failure # MaxTurnsExceeded(max_turns)
             /\ Len(requests) = Len(call_log) + 1)
    /\ [][failure.kind = "APIError" => requests' = requests]_vars

\* C15, witness: the second call of a run with a budget of three raised, after
\* a first turn with tools.
C15_Witness ==
    /\ failure.kind = "APIError"
    /\ max_turns = 3
    /\ Len(requests) = 2
    /\ Len(call_log) = 1
    /\ total_tool_calls > 0

\* ---- the returned result

\* The number of tool_use blocks of the assistant messages of a conversation.
RECURSIVE BatchSizes(_)
BatchSizes(msgs) ==
    IF msgs = <<>> THEN 0
    ELSE (IF Head(msgs).role = "assistant"
          THEN Len(ToolBlocksOf(Head(msgs).content)) ELSE 0)
         + BatchSizes(Tail(msgs))

\* The texts of the first n blocks of a response, one after the other.
RECURSIVE TextUpTo(_, _)
TextUpTo(content, n) ==
    IF n = 0 THEN ""
    ELSE TextUpTo(content, n - 1)
         \o (IF content[n].type = "text" THEN content[n].text ELSE "")

\* C16: the result run returns has turns = the number of backend calls of the
\* run, tool_calls = the sum of the sizes of the batches dispatched in it, and
\* answer = the text blocks of the final response, concatenated in order.
C16_ResultCountsCallsAndTools ==
    pc = "returned" =>
        /\ result.turns = BackendCalls
        /\ result.tool_calls = BatchSizes(messages)
        /\ result.tool_calls = Cardinality(AnsweredIds(messages))
        /\ result.answer = TextUpTo(response.content, Len(response.content))
        /\ response.stop_reason = "end_turn"

\* C16, witness: two turns with one tool each, then an answer in two text
\* blocks: tool_calls = 2, turns = 3.
C16_Witness ==
    /\ pc = "returned"
    /\ result.turns = 3
    /\ result.tool_calls = 2
    /\ Len(messages) = 5
    /\ Len(response.content) = 2
    /\ result.answer = "The deadline is March 3."

\* ---- the budget guard

\* C17: whatever the stop reasons of the responses and whatever max_turns, the
\* number of backend calls made is the turn counter and never exceeds
\* max_turns: the guard is passed before every call.
C17_CallsWithinBudget ==
    /\ BackendCalls = turns
    /\ turns <= max_turns
    /\ Len(call_log) <= BackendCalls

\* C17, witness: a run with the largest budget made its last allowed call, and
\* its responses had different stop reasons.
C17_Witness ==
    /\ max_turns = MaxTurnsBound
    /\ BackendCalls = max_turns
    /\ Terminated
    /\ \E a, b \in 1..Len(call_log) :
          call_log[a].stop_reason # call_log[b].stop_reason

\* ---- batches of every size

\* No invocation of the batch raised.
AllReturned(blocks) ==
    \A i \in 1..Len(blocks) :
        \A x \in produced : x.id = blocks[i].id => x.outcome.kind = "return"

\* C18: once the batch of a tool_use response is over, whatever its number K of
\* tool_use blocks, zero included, and with every invocation returning, the
\* assistant message is followed by one user message with K tool results, and
\* the run has not failed on the batch.
\* The code refutes it for K = 0: ThreadPoolExecutor(max_workers=0) raises
\* ValueError, which leaves run; no user message is appended.
C18_EveryBatchSizeIsGathered ==
    /\ failure.kind # "ValueError"
    /\ \A j \in GatheredBatches :
         AllReturned(ToolBlocksOf(messages[j].content)) =>
            /\ j < Len(messages)
            /\ Answers(messages, j + 1)

\* ---- the barrier of the dispatcher

\* C19: while an invocation of the batch has not finished, the conversation
\* ends with the assistant message of the batch; the tool-result message is
\* appended, the next request sent and the run left only when every invocation
\* of the batch has finished, and the message appended holds the whole batch.
C19_DispatchIsBarrier ==
    /\ []((pc = "dispatch" /\ Pending # {}) =>
             /\ IsAssistant(messages, Len(messages))
             /\ ToolBlocksOf(messages[Len(messages)].content) = tool_blocks)
    /\ [][requests' # requests => Pending = {}]_vars
    /\ [][messages' # messages /\ messages'[Len(messages')].role = "user"
             => /\ Pending = {}
                /\ Len(messages'[Len(messages')].content) = Len(tool_blocks)]_vars
    /\ [][(pc = "dispatch" /\ pc' # "dispatch") => Pending = {}]_vars

\* C19, witness: the two invocations of the first batch have finished, their
\* results are appended, and the budget allows the next call.
C19_Witness ==
    /\ pc = "loop"
    /\ Len(requests) = 1
    /\ Len(tool_blocks) = MaxBatch
    /\ Len(futures) = MaxBatch
    /\ IsResultMessage(messages, Len(messages))
    /\ LoopContinues(turns, max_turns)

\* ---- the cache hint within a batch

\* C20: in every tool-result message, the result at position i carries a cache
\* hint exactly when i is the last position and the string execute_tool
\* returned has at least 200 characters; every other result is the plain
\* string; and hinted or not, the text is the string returned, unchanged.
C20_HintOnLongLastResult ==
    \A j \in ResultMessages(messages) :
        LET results == messages[j].content
        IN  \A i \in 1..Len(results) :
               LET c == results[i].content
               IN  /\ c.cache_control = (i = Len(results) /\ c.text.len >= 200)
                   /\ c.kind = (IF c.cache_control THEN "list" ELSE "str")
                   /\ ReturnedFor(results[i].tool_use_id) = {c.text}

\* C20, witness: a batch of two results of 200 characters, the first appended
\* plain and the last with the hint, after a batch whose only result, of 199
\* characters, was appended plain.
C20_Witness ==
    /\ Len(messages) = 5
    /\ Len(messages[3].content) = 1
    /\ messages[3].content[1].content.text.len = 199
    /\ ~messages[3].content[1].content.cache_control
    /\ Len(messages[5].content) = 2
    /\ messages[5].content[1].content.text.len = 200
    /\ ~messages[5].content[1].content.cache_control
    /\ messages[5].content[2].content.text.len = 200
    /\ messages[5].content[2].content.cache_control

\* ---- the order of the harness

\* The calls of run and of the judge, in the order they were made.
RunCalls == SelectSeq(harness.calls, LAMBDA c : c.step = "run")
JudgeCalls == SelectSeq(harness.calls, LAMBDA c : c.step = "judge")

\* The place of question id of variant v in variant-major order.
Place(v, id) == (v - 1) * harness.questions + id

\* The error texts of a run that raised.
RunErrorTexts == {"ERROR: " \o e.message : e \in RunRaises}

\* C21: run_eval runs at most two variants; the runs are made one after the
\* other, every question of variant 1 in order and then every question of
\* variant 2; the judge is called at most once for a question, right after the
\* run of that question and before the next run, once for every row of a run
\* that returned and never for a row that holds the error of a run; and the
\* rows of a variant are in the order of the questions.
C21_VariantMajorOrder ==
    /\ Len(harness.prompt_results) <= 2
    /\ harness.variant <= 2
    /\ \A k \in 1..Len(RunCalls) :
          /\ RunCalls[k].variant \in 1..2
          /\ RunCalls[k].id \in 1..harness.questions
          /\ Place(RunCalls[k].variant, RunCalls[k].id) = k
    /\ \A k \in 1..Len(harness.calls) :
          harness.calls[k].step = "judge" =>
             /\ k > 1
             /\ harness.calls[k - 1] =
                   [harness.calls[k] EXCEPT !.step = "run"]
    /\ \A v \in 1..Len(harness.prompt_results) :
          LET rows == harness.prompt_results[v]
          IN  \A k \in 1..Len(rows) :
                 LET judged == {n \in 1..Len(JudgeCalls) :
                                   /\ JudgeCalls[n].variant = v
                                   /\ JudgeCalls[n].id = k}
                 IN  /\ rows[k].id = k
                     /\ Cardinality(judged) <= 1
                     /\ rows[k].turns > 0 => Cardinality(judged) = 1
                     /\ rows[k].response \in RunErrorTexts => judged = {}
    /\ Len(RunCalls) =
          IF harness.prompt_results = <<>> THEN 0
          ELSE Place(Len(harness.prompt_results),
                     Len(harness.prompt_results[Len(harness.prompt_results)]))

\* C21, witness: run_eval was given three prompts and has finished: two
\* variants of two questions, with a run that failed and was not judged in the
\* first and a judged run after it in the second.
C21_Witness ==
    /\ harness.state = "done"
    /\ harness.prompts = 3
    /\ harness.questions = 2
    /\ Len(harness.prompt_results) = 2
    /\ Len(RunCalls) = 4
    /\ Len(JudgeCalls) = 3
    /\ harness.prompt_results[1][2].response \in RunErrorTexts
    /\ harness.prompt_results[2][2].turns > 0

\* ---- the terminal event of /chat

\* The events of request i that its worker has put: those still in the queue
\* and those delivered, the timeout event being the generator's own.
WorkerEvents(i) ==
    ({chat[i].q[k] : k \in 1..Len(chat[i].q)}
       \cup {chat[i].stream[k] : k \in 1..Len(chat[i].stream)})
    \ {ThinkingEvent, TimeoutEvent}

\* The ways run(question, ...) ends when it is called with parameters it has: it
\* returns its result or raises.
RunEnds == RunOutcomes(RunParameters \ {"question"})

\* C22: the event a worker puts tells how its run ended: a done event with the
\* result of a run that returned, an error event with the message of a run that
\* raised; so the terminal event delivered for a run that returned in time is
\* the done event, and an error event is delivered only for a run that failed
\* or for the timeout.
\* The code refutes it: the worker passes event_queue=q, a keyword run does not
\* declare, so the call raises TypeError before any line of run and every
\* request ends with an error event, whatever the run would have returned.
C22_DoneCarriesResult ==
    \A i \in Requests :
        /\ WorkerEvents(i) \subseteq {WorkerEvent(o) : o \in RunEnds}
        /\ \A e \in WorkerEvents(i) :
              e.type = "error" =>
                 e \in {WorkerEvent("MaxTurnsExceeded"), WorkerEvent("Exception")}

\* ---- the batch of the last turn

\* The run was aborted after a last response that asked for tools.
AbortedOnToolUse ==
    /\ pc = "raised"
    /\ failure.kind = "MaxTurnsExceeded"
    /\ response.stop_reason = "tool_use"

\* C23: when run raises MaxTurnsExceeded after an N-th response that asked for
\* tools, the batch of that response was dispatched and its results are in the
\* conversation, as its last message: the conversation holds as many
\* tool-result messages as backend calls were made, N = max_turns, although no
\* request carries the last of them.
C23_LastBatchIsDispatched ==
    AbortedOnToolUse =>
        /\ BackendCalls = max_turns
        /\ AlwaysToolUse
        /\ Cardinality(ResultMessages(messages)) = BackendCalls
        /\ Answers(messages, Len(messages))
        /\ messages[Len(messages) - 1].content = response.content
        /\ \A i \in 1..Len(tool_blocks) :
              ReturnedFor(tool_blocks[i].id)
                 = {messages[Len(messages)].content[i].content.text}
        /\ Len(requests[Len(requests)].messages) = Len(messages) - 2

\* C23, witness: a run with max_turns = 2 was aborted after a second response
\* with two tool_use blocks, whose results end the conversation.
C23_Witness ==
    /\ AbortedOnToolUse
    /\ max_turns = 2
    /\ Len(messages) = 5
    /\ Len(tool_blocks) = MaxBatch
    /\ Len(messages[5].content) = MaxBatch

\* ---- a judge that raises

\* The error texts of a judge call that raised.
JudgeErrorTexts ==
    {"ERROR: " \o j.message : j \in {o \in JudgeOutcomes : o.kind = "raise"}}

\* C24: when the run of a question returned and the call of the judge raised,
\* the row of the question is the failure row: the error text of the judge as
\* response, correct = false and every counter 0, so nothing of the run's
\* answer and usage is kept; and the harness goes on: a finished variant has a
\* row for every question.
C24_JudgeFailureDiscardsRun ==
    /\ Len(harness.judged) = Len(JudgeCalls)
    /\ \A n \in 1..Len(JudgeCalls) :
          harness.judged[n] = "raise" =>
             LET row == harness.prompt_results[JudgeCalls[n].variant]
                                              [JudgeCalls[n].id]
             IN  /\ row.response \in JudgeErrorTexts
                 /\ row.response \notin {r.answer : r \in RunReturns}
                 /\ row.correct = FALSE
                 /\ \A f \in UsageFields : row[f] = 0
    /\ harness.state = "done" =>
          \A v \in 1..Len(harness.prompt_results) :
             Len(harness.prompt_results[v]) = harness.questions

\* C24, witness: the judge raised for the first question, whose run had
\* returned, and the second question was run and judged correct after it.
C24_Witness ==
    /\ harness.state = "done"
    /\ harness.questions = 2
    /\ harness.judged = <<"raise", "verdict">>
    /\ harness.prompt_results[1][1].response = "ERROR: Overloaded"
    /\ harness.prompt_results[1][1].turns = 0
    /\ harness.prompt_results[1][2].correct
    /\ harness.prompt_results[1][2].turns > 0

\* ---- the shared client

\* The threads whose call of run has its client.
WithClient == {i \in Threads : InLoop(i)}

\* C25: whatever the interleaving of the calls of run, _get_client constructs
\* the client at most once and every call of run gets that one instance.
\* The code refutes it: _get_client tests and sets the global _client without a
\* lock, so two threads that both find it None both construct a client, and one
\* of them can go on with the instance the other then replaces.
C25_OneSharedClient ==
    /\ pool.made <= 1
    /\ \A i, j \in WithClient : pool.runs[i].client = pool.runs[j].client
    /\ \A i \in WithClient : pool.runs[i].client = pool.client

====
